---- MODULE Spec2Model ----
(***************************************************************************)
(* Model of the webserv conformance harness: TesterAdvanced.py             *)
(* (WebservCorrectionTester) and TesterBasic.py (WebservGeneralTester).    *)
(*                                                                         *)
(* Every Python function of the two testers is a program: a sequence of    *)
(* instructions, one per statement that touches a SUT process, a fixture   *)
(* file, a probe or a result.  An instruction carries the try/except/      *)
(* finally region it sits in (exc, tmo, fin).  The harness is a call stack *)
(* of frames over these programs; the SUT processes and the user           *)
(* (KeyboardInterrupt) are the environment.                                *)
(***************************************************************************)
EXTENDS Integers, Sequences, FiniteSets, TLC

\* At most this many environment faults (a probe whose output cannot be
\* decoded, a Popen that fails, an unparsable tool output) are injected per run.
MaxFaults == 1

VARIABLES
    tester,          \* "advanced" | "basic": which script runs
    linux,           \* sys.platform == "linux" ("unknown" until it is read)
    siege,           \* `which siege` succeeds ("unknown" until it is run)
    strace,          \* strace can attach to the SUT ("unknown" until it is run)
    stack,           \* call stack of frames [fn, ip, pk, pv]
    ret,             \* value returned by the last call
    flag,            \* a section's scratch Boolean (r1/route_results/has_*)
    tests_passed,    \* tests_passed list of the running advanced section
    passed,          \* passed counter of the running basic section
    handles,         \* process variables: server_process and section locals
    orphans,         \* live SUT processes no variable refers to any more
    files,           \* temporary files that exist
    results,         \* results dict / test_results list, in insertion order
    mandatory_fail,  \* run_correction_tests' gate flag
    verdicts,        \* final verdict lines printed so far
    score,           \* <<passed, total>> of the printed score line
    interrupted,     \* the user has pressed Ctrl-C
    faults,          \* environment faults injected so far
    exists,          \* [binary, config]: os.path.exists of the two paths
    call             \* one call of run_curl: its arguments, what its two
                     \* invocations did, and its result

vars == <<tester, linux, siege, strace, stack, ret, flag, tests_passed, passed,
          handles, orphans, files, results, mandatory_fail, verdicts, score,
          interrupted, faults, exists, call>>

envv == <<tester, linux, siege, strace, exists, call>>
report == <<results, mandatory_fail, verdicts, score>>
locals == <<flag, tests_passed, passed>>
procs == <<handles, orphans>>
\* what no instruction but the few that are about them changes
quiet == <<envv, ret, verdicts, score, interrupted>>

----------------------------------------------------------------------------
\* Instructions

\* op: the statement; a: its operand; e: expected code of a run_curl probe;
\* acc: observations that make a probe True; to: branch target; nx: where
\* control goes next (0: the following instruction); exc, tmo, kbd: the
\* except clause that catches Exception, TimeoutExpired, KeyboardInterrupt
\* raised here (0: none); fin: the finally block of the enclosing try (0: none)
Ins(op, a) ==
    [op |-> op, a |-> a, e |-> "None", acc |-> {}, to |-> 0, nx |-> 0,
     exc |-> 0, tmo |-> 0, kbd |-> 0, fin |-> 0]

\* a probe through subprocess.run("curl ..."): mode says what is done with
\* its Boolean, acc is the set of observations that make it True
Curl(mode, acc) == [Ins("curl", mode) EXCEPT !.acc = acc]
\* a probe through self.run_curl(cmd, expected)
RunCurl(mode, expected) == [Ins("run_curl", mode) EXCEPT !.e = expected]
To(ins, i) == [ins EXCEPT !.to = i]
Nx(ins, i) == [ins EXCEPT !.nx = i]
\* the instruction sits in a try: Exception -> e, TimeoutExpired -> t,
\* finally block at f
Try(ins, e, t, f) == [ins EXCEPT !.exc = e, !.tmo = t, !.fin = f]

Statuses == {"000", "200", "201", "204", "400", "403", "404", "405", "413", "500", "501"}
Content == {"match", "nomatch"}
\* what the environment can answer to a probe
Observations(ins) == IF ins.acc \cap Content # {} THEN Content ELSE Statuses

----------------------------------------------------------------------------
\* WebservCorrectionTester (TesterAdvanced.py): the sections as programs

\* a faulty check_memory_leaks: the section reports a leak
check_memory_leaks_failing == << Ins("return", "False") >>

\* check_memory_leaks: the body is commented out; only the header is printed
check_memory_leaks == << Ins("return", "None") >>

test_io_multiplexing == <<
    Ins("Popen", "server_process"),                          \* 1  l.110
    Ins("sleep", ""),                                        \* 2  l.115
    Try(To(Ins("if_linux", ""), 6), 7, 0, 8),                \* 3  l.122
    Try(Ins("strace", ""), 7, 0, 8),                         \* 4  l.124-131
    Try(Ins("return", "flag"), 7, 0, 8),                     \* 5  l.133-139
    Try(Ins("return", "None"), 7, 0, 8),                     \* 6  l.141-142
    Try(Ins("return", "False"), 0, 0, 8),                    \* 7  l.144-146
    Ins("terminate", "server_process"),                      \* 8  l.148
    Ins("wait", "server_process"),                           \* 9  l.149
    Ins("endfinally", "") >>                                 \* 10

test_configuration == <<
    Ins("mkstemp", "configuration.path"),                    \* 1  l.183-185
    Ins("Popen", "server"),                                  \* 2  l.188
    Ins("sleep", ""),                                        \* 3  l.190
    Curl("flag_set", {"match"}),                             \* 4  l.193
    Curl("flag_and", {"match"}),                             \* 5  l.195
    Ins("append", "flag"),                                   \* 6  l.198-200
    Ins("terminate", "server"),                              \* 7  l.202
    Ins("wait", "server"),                                   \* 8  l.203
    Ins("unlink", "configuration.path"),                     \* 9  l.204
    Ins("sleep", ""),                                        \* 10 l.205
    Ins("Popen", "server_process"),                          \* 11 l.208
    Ins("sleep", ""),                                        \* 12 l.210
    Curl("append", {"match"}),                               \* 13 l.212-218
    Curl("flag_set", {"200", "404"}),                        \* 14 l.241 /
    Curl("flag_and", {"200", "404"}),                        \* 15 /dashboard
    Curl("flag_and", {"200", "404"}),                        \* 16 /methods
    Curl("flag_and", {"200", "404"}),                        \* 17 /cgi-bin/
    Ins("append", "flag"),                                   \* 18 l.244-246
    Curl("append", {"403", "405"}),                          \* 19 l.250-254
    Ins("terminate", "server_process"),                      \* 20 l.256
    Ins("wait", "server_process"),                           \* 21 l.257
    Ins("return", "all") >>                                  \* 22 l.259

test_basic_checks == <<
    Ins("Popen", "server_process"),                          \* 1  l.266
    Ins("sleep", ""),                                        \* 2  l.268
    Curl("append", {"200"}),                                 \* 3  l.273-277
    Curl("append", {"200", "201"}),                          \* 4  l.280-284
    Curl("discard", {"200", "201"}),                         \* 5  l.288
    Ins("sleep", ""),                                        \* 6  l.290
    Curl("append", {"200", "204", "404"}),                   \* 7  l.293-297
    Curl("append", {"400", "405", "501"}),                   \* 8  l.300-304
    Ins("mkstemp", "basic_checks.filepath"),                              \* 9  l.308-310
    Curl("append", {"200", "201"}),                          \* 10 l.313-317
    Ins("unlink", "basic_checks.filepath"),                               \* 11 l.319
    Ins("terminate", "server_process"),                      \* 12 l.321
    Ins("wait", "server_process"),                           \* 13 l.322
    Ins("return", "all") >>                                  \* 14 l.324

test_cgi == <<
    Ins("Popen", "server_process"),                          \* 1  l.331
    Ins("sleep", ""),                                        \* 2  l.333
    Curl("append", {"match"}),                               \* 3  l.338-342
    Curl("append", {"match"}),                               \* 4  l.345-349
    Curl("append", {"match"}),                               \* 5  l.352-356
    Curl("append", {"match"}),                               \* 6  l.359-363
    Ins("mkstemp", "cgi.bad_cgi_path"),                          \* 7  l.372-375
    Ins("append", "True"),                                   \* 8  l.379-380
    Ins("unlink", "cgi.bad_cgi_path"),                           \* 9  l.382
    Ins("terminate", "server_process"),                      \* 10 l.384
    Ins("wait", "server_process"),                           \* 11 l.385
    Ins("return", "all") >>                                  \* 12 l.387

test_browser_compatibility == <<
    Ins("Popen", "server_process"),                          \* 1  l.394
    Ins("sleep", ""),                                        \* 2  l.396
    Curl("append", {"match"}),                               \* 3  l.401-411
    Curl("append", {"404"}),                                 \* 4  l.414-418
    Curl("print", {"match"}),                                \* 5  l.421-425
    Ins("append", "True"),                                   \* 6  l.426
    Curl("append", {"200", "404"}),                          \* 7  l.436-440
    Curl("append", {"200", "404"}),                          \* 8
    Curl("append", {"200", "404"}),                          \* 9
    Ins("terminate", "server_process"),                      \* 10 l.442
    Ins("wait", "server_process"),                           \* 11 l.443
    Ins("return", "all") >>                                  \* 12 l.445

test_port_issues == <<
    Ins("mkstemp", "port_issues.path"),                      \* 1  l.468-470
    Ins("run_sut", "port_issues.path"),                                  \* 2  l.472
    Ins("run_wait", ""),                                     \* 3  l.472-474
    Ins("append", "flag"),                                   \* 4  l.475-476
    Ins("unlink", "port_issues.path"),                       \* 5  l.477
    Ins("mkstemp", "port_issues.path1"),                                 \* 6  l.507-509
    Ins("mkstemp", "port_issues.path2"),                     \* 7  l.511-513
    Ins("Popen", "server1"),                                 \* 8  l.516
    Ins("sleep", ""),                                        \* 9  l.518
    Ins("Popen", "server2"),                                 \* 10 l.521
    Ins("sleep", ""),                                        \* 11 l.523
    Ins("poll_append", "server2"),                           \* 12 l.526-528
    Ins("terminate", "server1"),                             \* 13 l.530
    Ins("wait", "server1"),                                  \* 14 l.531
    To(Ins("if_running", "server2"), 18),                    \* 15 l.532
    Ins("terminate", "server2"),                             \* 16 l.533
    Ins("wait", "server2"),                                  \* 17 l.534
    Ins("unlink", "port_issues.path1"),                                  \* 18 l.536
    Ins("unlink", "port_issues.path2"),                      \* 19 l.537
    Ins("return", "all") >>                                  \* 20 l.539

test_stress == <<
    To(Ins("which_siege", ""), 3),                           \* 1  l.546-547
    Ins("return", "None"),                                   \* 2  l.548-550
    Ins("Popen", "server_process"),                          \* 3  l.553
    Ins("sleep", ""),                                        \* 4  l.555
    Ins("memory_info", "initial"),                           \* 5  l.560-561
    Ins("siege", ""),                                        \* 6  l.565-576
    Ins("sleep", ""),                                        \* 7  l.579
    Ins("memory_info", "final"),                             \* 8  l.580-586
    Ins("netstat", ""),                                      \* 9  l.589-596
    Ins("terminate", "server_process"),                      \* 10 l.598
    Ins("wait", "server_process"),                           \* 11 l.599
    Ins("return", "all") >>                                  \* 12 l.601

test_bonus == <<
    Ins("Popen", "server_process"),                          \* 1  l.608
    Ins("sleep", ""),                                        \* 2  l.610
    Curl("append", {"match"}),                               \* 3  l.615-620
    Ins("path_exists", ""),                                  \* 4  l.623-629
    Ins("terminate", "server_process"),                      \* 5  l.631
    Ins("wait", "server_process"),                           \* 6  l.632
    Ins("return", "all") >>                                  \* 7  l.634

\* test_sections of run_correction_tests (l.660-670)
test_sections == <<
    <<"Memory Leaks", "check_memory_leaks">>,
    <<"I/O Multiplexing", "test_io_multiplexing">>,
    <<"Configuration", "test_configuration">>,
    <<"Basic Checks", "test_basic_checks">>,
    <<"CGI", "test_cgi">>,
    <<"Browser Compatibility", "test_browser_compatibility">>,
    <<"Port Issues", "test_port_issues">>,
    <<"Stress Tests", "test_stress">>,
    <<"Bonus Features", "test_bonus">> >>

\* the names run_correction_tests tests for the zero-grade gate (l.681)
MandatorySections == {"Memory Leaks", "I/O Multiplexing", "Configuration", "Basic Checks"}

\* one iteration of `for name, test_func in test_sections` (l.675-686),
\* placed at instruction b
SectionIteration(k, b) == <<
    Try(Ins("call", test_sections[k][2]), b + 2, 0, 0),      \* l.677
    Nx(Ins("record", test_sections[k][1]), b + 3),           \* l.678-682
    Ins("record_false", test_sections[k][1]) >>              \* l.684-686

RECURSIVE SectionLoop(_, _)
SectionLoop(k, b) ==
    IF k > Len(test_sections) THEN << >>
    ELSE SectionIteration(k, b) \o SectionLoop(k + 1, b + 3)

run_correction_tests ==
    << To(Ins("if_binary", ""), 3),                          \* 1  l.644
       Ins("return", "None") >>                              \* 2  l.645-647
    \o SectionLoop(1, 3)                                     \* 3..29
    \o << Ins("summary", ""),                                \* 30 l.689-712
          Ins("verdict", ""),                                \* 31 l.714-731
          Ins("return", "None") >>                           \* 32

\* the script body under `if __name__ == "__main__"` (l.733-762)
main_advanced == <<
    To(Ins("if_binary", ""), 3),                             \* 1  l.738
    Ins("sys_exit", ""),                                     \* 2  l.739-742
    To(Ins("if_config", ""), 5),                             \* 3  l.744
    Ins("sys_exit", ""),                                     \* 4  l.745-747
    [Ins("call", "run_correction_tests")
        EXCEPT !.kbd = 7, !.exc = 11],                       \* 5  l.751-752
    Ins("return", "None"),                                   \* 6
    To(Ins("if_server_process", ""), 10),                    \* 7  l.753-755
    Ins("terminate", "server_process"),                      \* 8  l.756
    Ins("wait", "server_process"),                           \* 9  l.757
    Ins("return", "None"),                                   \* 10
    To(Ins("if_server_process", ""), 14),                    \* 11 l.758-760
    Ins("terminate", "server_process"),                      \* 12 l.761
    Ins("wait", "server_process"),                           \* 13 l.762
    Ins("return", "None") >>                                 \* 14

----------------------------------------------------------------------------
\* WebservGeneralTester (TesterBasic.py): the sections as programs

\* a `tests` list of (command, expected) run through
\* `if self.run_curl(cmd, expected): passed += 1`, then
\* `return passed == len(tests)`
CurlTests(codes) ==
    [i \in 1..Len(codes) |-> RunCurl("count", codes[i])]
    \o << To(Ins("return", "passed"), Len(codes)) >>

\* the expected codes of test_error_codes' tests (l.65-87)
error_code_tests ==
    <<"400", "400", "400", "403", "403", "404", "404", "404",
      "405", "405", "405", "413">>
test_error_codes == CurlTests(error_code_tests)

\* test_file_uploads (l.97-123)
client_max_body_size == 50000
sizes == <<100, 1000, 10000, 49999, 50001>>
upload_expected(size) == IF size <= client_max_body_size THEN "201" ELSE "413"
upload_file(i) == <<"upload1", "upload2", "upload3", "upload4", "upload5">>[i]
RECURSIVE UploadLoop(_)
UploadLoop(i) ==
    IF i > Len(sizes) THEN << >>
    ELSE << RunCurl("count", upload_expected(sizes[i])),     \* l.113-117
            Ins("unlink", upload_file(i)) >>                 \* l.120
         \o UploadLoop(i + 1)
test_file_uploads ==
    [i \in 1..Len(sizes) |-> Ins("mkstemp", upload_file(i))] \* l.105-109
    \o UploadLoop(1)
    \o << To(Ins("return", "passed"), Len(sizes)) >>         \* l.123

\* test_permission_errors (l.129-152)
permission_tests ==
    <<"403", "403", "403", "403", "403", "403", "200", "201", "200">>
test_permission_errors == CurlTests(permission_tests)

\* test_autoindex (l.158-176)
autoindex_tests == <<"404", "200", "200", "200">>
test_autoindex == CurlTests(autoindex_tests)

\* WebservGeneralTester.test_cgi (l.364-381)
cgi_tests == <<"200", "200", "200", "200", "200">>
test_cgi_general == CurlTests(cgi_tests)

\* test_cookies (l.383-402)
test_cookies == <<
    Curl("flag_set", {"match"}),                             \* 1  l.388-400
    Ins("return", "flag") >>                                 \* 2  l.402

\* test_config_errors (l.267-306)
test_configs == <<"duplicate_ports", "duplicate_names", "duplicate_locations">>
\* a faulty iteration: the launch is not inside the try
ConfigErrorIteration_unguarded(k, b) == <<
    Ins("run_sut", test_configs[k]),
    Ins("run_wait", ""),
    Try(To(Ins("count_flag", ""), b + 5), b + 5, b + 4, b + 5),
    Try(Nx(Ins("pkill", ""), b + 5), b + 5, b + 4, b + 5),
    Try(Ins("pkill", ""), 0, 0, b + 5),
    Ins("unlink", test_configs[k]),
    Ins("endfinally", "") >>
\* one iteration of `for config_path, description in test_configs`, at b
ConfigErrorIteration(k, b) == <<
    Try(Ins("run_sut", test_configs[k]), b + 5, b + 4, b + 5),   \* l.282
    Try(Ins("run_wait", ""), b + 5, b + 4, b + 5),               \* l.282-290
    Try(To(Ins("count_flag", ""), b + 5), b + 5, b + 4, b + 5),  \* l.290-292
    Try(Nx(Ins("pkill", ""), b + 5), b + 5, b + 4, b + 5),       \* l.293-296
    Try(Ins("pkill", ""), 0, 0, b + 5),                          \* l.297-299
    Ins("unlink", test_configs[k]),                              \* l.302-303
    Ins("endfinally", "") >>
RECURSIVE ConfigErrorLoop(_, _)
ConfigErrorLoop(k, b) ==
    IF k > Len(test_configs) THEN << >>
    ELSE ConfigErrorIteration(k, b) \o ConfigErrorLoop(k + 1, b + 7)
test_config_errors ==
    [k \in 1..Len(test_configs) |-> Ins("mkstemp", test_configs[k])]  \* l.271-275
    \o ConfigErrorLoop(1, Len(test_configs) + 1)
    \o << To(Ins("return", "passed"), Len(test_configs)) >>      \* l.306

\* test_multiple_servers (l.308-358); `passed` is held in flag
test_multiple_servers == <<
    Ins("mkstemp", "multiple_servers.path2"),                \* 1  l.326-328
    Try(Ins("Popen", "server2"), 8, 0, 9),                   \* 2  l.332
    Try(Ins("sleep", ""), 8, 0, 9),                          \* 3  l.335
    Try(RunCurl("flag_set", "200"), 8, 0, 9),                \* 4  l.338
    Try(RunCurl("flag_and", "200"), 8, 0, 9),                \* 5  l.339-346
    Try(Ins("terminate", "server2"), 8, 0, 9),               \* 6  l.349
    Try(Nx(Ins("wait_timeout", "server2"), 9), 8, 0, 9),     \* 7  l.350
    Try(Ins("set_flag", "False"), 0, 0, 9),                  \* 8  l.352-354
    Ins("unlink", "multiple_servers.path2"),                 \* 9  l.355-356
    Ins("endfinally", ""),                                   \* 10
    Ins("return", "flag") >>                                 \* 11 l.358

start_server == <<
    Ins("Popen", "server_process"),                          \* 1  l.407-411
    Ins("sleep", ""),                                        \* 2  l.412
    To(Ins("if_running", "server_process"), 5),              \* 3  l.415
    Ins("return", "True"),                                   \* 4  l.419-420
    Ins("return", "False") >>                                \* 5  l.416-417

\* a faulty stop_server: the kill follows the wait whether it timed out or not
stop_server_kill_always == <<
    To(Ins("if_server_process", ""), 6),
    Ins("terminate", "server_process"),
    Try(Nx(Ins("wait_timeout", "server_process"), 4), 0, 4, 0),
    Ins("kill", "server_process"),
    Ins("clear", "server_process"),
    Ins("return", "None") >>

stop_server == <<
    To(Ins("if_server_process", ""), 6),                     \* 1  l.424
    Ins("terminate", "server_process"),                      \* 2  l.426
    Try(Nx(Ins("wait_timeout", "server_process"), 5), 0, 4, 0), \* 3 l.427-429
    Ins("kill", "server_process"),                           \* 4  l.430-432
    Ins("clear", "server_process"),                          \* 5  l.433
    Ins("return", "None") >>                                 \* 6

\* a section of run_all_tests: test_results.append((name, self.f()))
BasicSection(name, fn) == << Ins("call", fn), Ins("append_result", name) >>

run_all_tests ==
    << Ins("call", "start_server"),                          \* 1  l.442
       To(Ins("if_ret", ""), 25) >>                          \* 2  l.442
    \o BasicSection("Error Codes", "test_error_codes")       \* 3  l.449
    \o BasicSection("File Uploads", "test_file_uploads")     \* 5  l.450
    \o BasicSection("Permissions", "test_permission_errors") \* 7  l.451
    \o BasicSection("Autoindex", "test_autoindex")           \* 9  l.452
    \o BasicSection("CGI", "test_cgi_general")               \* 11 l.453
    \o BasicSection("Cookies", "test_cookies")               \* 13 l.454
    \o << Ins("call", "stop_server") >>                      \* 15 l.457
    \o BasicSection("Config Errors", "test_config_errors")   \* 16 l.460
    \o << Ins("call", "start_server"),                       \* 18 l.463
          To(Ins("if_ret", ""), 23) >>                       \* 19 l.463
    \o BasicSection("Multiple Servers", "test_multiple_servers")  \* 20 l.464
    \o << Ins("call", "stop_server"),                        \* 22 l.465
          Ins("verdict_general", ""),                        \* 23 l.468-486
          Ins("return", "None"),                             \* 24
          Ins("return", "None") >>                           \* 25 l.443-444

\* the script body under `if __name__ == "__main__"` (l.488-512)
main_basic == <<
    To(Ins("if_binary", ""), 3),                             \* 1  l.494
    Ins("sys_exit", ""),                                     \* 2  l.495-497
    To(Ins("if_config", ""), 5),                             \* 3  l.499
    Ins("sys_exit", ""),                                     \* 4  l.500-502
    [Ins("call", "run_all_tests")
        EXCEPT !.kbd = 7, !.exc = 9],                        \* 5  l.505-506
    Ins("return", "None"),                                   \* 6
    Ins("call", "stop_server"),                              \* 7  l.507-509
    Ins("return", "None"),                                   \* 8
    Ins("call", "stop_server"),                              \* 9  l.510-512
    Ins("return", "None") >>                                 \* 10

\* the functions of the two scripts, by name
Programs ==
    [main_advanced |-> main_advanced,
     run_correction_tests |-> run_correction_tests,
     check_memory_leaks |-> check_memory_leaks,
     test_io_multiplexing |-> test_io_multiplexing,
     test_configuration |-> test_configuration,
     test_basic_checks |-> test_basic_checks,
     test_cgi |-> test_cgi,
     test_browser_compatibility |-> test_browser_compatibility,
     test_port_issues |-> test_port_issues,
     test_stress |-> test_stress,
     test_bonus |-> test_bonus,
     main_basic |-> main_basic,
     run_all_tests |-> run_all_tests,
     start_server |-> start_server,
     stop_server |-> stop_server,
     test_error_codes |-> test_error_codes,
     test_file_uploads |-> test_file_uploads,
     test_permission_errors |-> test_permission_errors,
     test_autoindex |-> test_autoindex,
     test_cgi_general |-> test_cgi_general,
     test_cookies |-> test_cookies,
     test_config_errors |-> test_config_errors,
     test_multiple_servers |-> test_multiple_servers]
Program(fn) == Programs[fn]

\* the process variables that are locals of a function
Locals(fn) ==
    CASE fn = "test_configuration" -> {"server"}
      [] fn = "test_port_issues" -> {"server1", "server2", "run"}
      [] fn = "test_config_errors" -> {"run"}
      [] fn = "test_multiple_servers" -> {"server2"}
      [] OTHER -> {}


----------------------------------------------------------------------------
\* Processes and frames

Slots == {"server_process", "server", "server1", "server2", "run"}
SigClasses == {"none", "term", "kill"}
\* a process variable: st "none" is None, "alive" a running SUT, "dead" one
\* that has exited; sig is the signal delivered and not yet acted upon
NoProc == [st |-> "none", sig |-> "none", rc |-> "na"]
Live == [st |-> "alive", sig |-> "none", rc |-> "na"]
Dead(rc) == [st |-> "dead", sig |-> "none", rc |-> rc]

Frame(fn) == [fn |-> fn, ip |-> 1, pk |-> "none", pv |-> "none"]
Top == stack[Len(stack)]
Cur == Program(Top.fn)[Top.ip]
Running == stack # << >>
At(op) == Running /\ Cur.op = op

\* the functions whose locals are the results and the gate flag
RunFns == {"run_correction_tests", "run_all_tests"}
InRun(st) == \E i \in 1..Len(st) : st[i].fn \in RunFns

Str(b) == IF b THEN "True" ELSE "False"
\* all(tests_passed)
all(s) == \A i \in 1..Len(s) : s[i]

SetTop(st, ip, pk, pv) ==
    [st EXCEPT ![Len(st)] = [fn |-> st[Len(st)].fn, ip |-> ip, pk |-> pk, pv |-> pv]]
NextIp == IF Cur.nx # 0 THEN Cur.nx ELSE Top.ip + 1
Advance == stack' = SetTop(stack, NextIp, Top.pk, Top.pv)
Goto(i) == stack' = SetTop(stack, i, Top.pk, Top.pv)

\* a process whose variable is overwritten or goes out of scope while it
\* runs stays alive with nothing referring to it
Orphaned(o, hs) ==
    [c \in SigClasses |->
        o[c] + Cardinality({s \in DOMAIN hs : hs[s].st = "alive" /\ hs[s].sig = c})]
\* the process variables once the locals of fn are out of scope
Released(fn, hs) == [s \in Slots |-> IF s \in Locals(fn) THEN NoProc ELSE hs[s]]
LocalsOf(fn, hs) == [s \in Locals(fn) |-> hs[s]]

\* `return v` completes: the frame is left, the caller goes on after its call
DoReturn(v) ==
    /\ ret' = v
    /\ handles' = Released(Top.fn, handles)
    /\ orphans' = Orphaned(orphans, LocalsOf(Top.fn, handles))
    /\ tests_passed' = << >>
    /\ passed' = 0
    /\ flag' = FALSE
    /\ results' = IF Top.fn \in RunFns THEN << >> ELSE results
    /\ mandatory_fail' = IF Top.fn \in RunFns THEN FALSE ELSE mandatory_fail
    /\ stack' = IF Len(stack) = 1 THEN << >>
                ELSE LET c == stack[Len(stack) - 1]
                         ins == Program(c.fn)[c.ip]
                     IN SetTop(SubSeq(stack, 1, Len(stack) - 1),
                               IF ins.nx # 0 THEN ins.nx ELSE c.ip + 1, c.pk, c.pv)

\* which except clause of the enclosing try catches exception t raised at ins
Catch(ins, t) ==
    CASE t = "Timeout" -> IF ins.tmo # 0 THEN ins.tmo ELSE ins.exc
      [] t = "Error" -> ins.exc
      [] t = "Kbd" -> ins.kbd

\* exception t is raised at the current instruction of the top frame of st:
\* an except clause catches it, or the finally block runs with it pending,
\* or the frame is left and it is raised at the caller's call
RECURSIVE Propagate(_, _, _, _)
Propagate(st, hs, os, t) ==
    IF st = << >> THEN [stack |-> st, handles |-> hs, orphans |-> os]
    ELSE LET top == st[Len(st)]
             ins == Program(top.fn)[top.ip]
         IN IF Catch(ins, t) # 0
            THEN [stack |-> SetTop(st, Catch(ins, t), "none", "none"),
                  handles |-> hs, orphans |-> os]
            ELSE IF ins.fin # 0
            THEN [stack |-> SetTop(st, ins.fin, "exc", t),
                  handles |-> hs, orphans |-> os]
            ELSE Propagate(SubSeq(st, 1, Len(st) - 1), Released(top.fn, hs),
                           Orphaned(os, LocalsOf(top.fn, hs)), t)

\* exception t is raised by the current instruction, the process variables
\* being hs
Raise(t, hs) ==
    \E r \in {Propagate(stack, hs, orphans, t)} :
       /\ stack' = r.stack
       /\ handles' = r.handles
       /\ orphans' = r.orphans
       /\ IF Len(r.stack) < Len(stack)
          THEN flag' = FALSE /\ tests_passed' = << >> /\ passed' = 0
          ELSE UNCHANGED locals
       /\ IF InRun(r.stack)
          THEN UNCHANGED <<results, mandatory_fail>>
          ELSE results' = << >> /\ mandatory_fail' = FALSE

\* an environment fault makes the current instruction raise an Exception
Fault ==
    /\ faults < MaxFaults
    /\ faults' = faults + 1
    /\ Raise("Error", handles)
    /\ UNCHANGED <<quiet, files>>

RetVal(ins) ==
    CASE ins.a = "flag" -> Str(flag)
      [] ins.a = "all" -> Str(all(tests_passed))
      [] ins.a = "passed" -> Str(passed = ins.to)
      [] OTHER -> ins.a

----------------------------------------------------------------------------
\* Control flow

Step_call ==
    /\ At("call")
    /\ stack' = Append(stack, Frame(Cur.a))
    /\ UNCHANGED <<quiet, locals, procs, files, results, mandatory_fail, faults>>

\* a return inside a try with a finally runs the finally block first
Step_return ==
    /\ At("return")
    /\ IF Cur.fin # 0
       THEN /\ stack' = SetTop(stack, Cur.fin, "ret", RetVal(Cur))
            /\ UNCHANGED <<ret, locals, procs, results, mandatory_fail>>
       ELSE DoReturn(RetVal(Cur))
    /\ UNCHANGED <<envv, verdicts, score, interrupted, files, faults>>

\* the end of a finally block: the pending return or exception goes on
Step_endfinally ==
    /\ At("endfinally")
    /\ CASE Top.pk = "ret" -> DoReturn(Top.pv)
         [] Top.pk = "exc" -> Raise(Top.pv, handles) /\ UNCHANGED ret
         [] OTHER -> Advance /\ UNCHANGED <<ret, locals, procs, results, mandatory_fail>>
    /\ UNCHANGED <<envv, verdicts, score, interrupted, files, faults>>

\* where an `if` goes to its `to` target
Jumps(ins) ==
    CASE ins.op = "if_binary" -> exists.binary
      [] ins.op = "if_config" -> exists.config
      [] ins.op = "if_server_process" -> handles["server_process"].st = "none"
      [] ins.op = "if_running" -> handles[ins.a].st # "alive"
      [] ins.op = "if_ret" -> ret # "True"

IfOps == {"if_binary", "if_config", "if_server_process", "if_running", "if_ret"}

Step_if ==
    /\ Running
    /\ Cur.op \in IfOps
    /\ IF Jumps(Cur) THEN Goto(Cur.to) ELSE Advance
    /\ ret' = IF Cur.op = "if_ret" THEN "None" ELSE ret
    /\ UNCHANGED <<envv, verdicts, score, interrupted, locals, procs, files, results,
                   mandatory_fail, faults>>

\* if sys.platform == "linux": ... else: return None
Step_if_linux ==
    /\ At("if_linux")
    /\ \E b \in BOOLEAN :
          /\ linux' = Str(b)
          /\ IF b THEN Advance ELSE Goto(Cur.to)
    /\ UNCHANGED <<tester, call, siege, strace, exists, ret, verdicts, score, interrupted,
                   locals, procs, files, results, mandatory_fail, faults>>

\* result = subprocess.run("which siege"); if result.returncode != 0: return None
Step_which_siege ==
    /\ At("which_siege")
    /\ \E b \in BOOLEAN :
          /\ siege' = Str(b)
          /\ IF b THEN Goto(Cur.to) ELSE Advance
    /\ UNCHANGED <<tester, call, linux, strace, exists, ret, verdicts, score, interrupted,
                   locals, procs, files, results, mandatory_fail, faults>>

\* sys.exit(1)
Step_sys_exit ==
    /\ At("sys_exit")
    /\ stack' = << >>
    /\ UNCHANGED <<quiet, locals, procs, files, results, mandatory_fail, faults>>

\* time.sleep(n)
Step_sleep ==
    /\ At("sleep")
    /\ Advance
    /\ UNCHANGED <<quiet, locals, procs, files, results, mandatory_fail, faults>>

----------------------------------------------------------------------------
\* Fixture files

\* fd, path = tempfile.mkstemp(...); the content is written
Step_mkstemp ==
    /\ At("mkstemp")
    /\ files' = files \cup {Cur.a}
    /\ Advance
    /\ UNCHANGED <<quiet, locals, procs, results, mandatory_fail, faults>>

\* os.unlink(path): FileNotFoundError when the file is not there, and the
\* delete can fail for a file that is (PermissionError, a read-only directory)
Step_unlink ==
    /\ At("unlink")
    /\ \/ /\ IF Cur.a \in files
             THEN /\ files' = files \ {Cur.a}
                  /\ Advance
                  /\ UNCHANGED <<locals, procs, results, mandatory_fail>>
             ELSE Raise("Error", handles) /\ UNCHANGED files
          /\ UNCHANGED <<quiet, faults>>
       \/ Fault

----------------------------------------------------------------------------
\* SUT processes as the harness drives them

\* v = subprocess.Popen([binary, config]): a new process; what v referred to
\* is no longer referred to
Step_Popen ==
    /\ At("Popen")
    /\ \/ /\ handles' = [handles EXCEPT ![Cur.a] = Live]
          /\ orphans' = Orphaned(orphans, [s \in {Cur.a} |-> handles[s]])
          /\ Advance
          /\ UNCHANGED <<quiet, locals, files, results, mandatory_fail, faults>>
       \/ Fault

\* a faulty Signal: the signal is sent without the poll
SignalUnpolled(h, sig) ==
    IF h.st = "none" THEN h ELSE [h EXCEPT !.sig = IF @ = "kill" THEN "kill" ELSE sig]

\* Popen.send_signal polls first: an exited process gets no signal
Signal(h, sig) ==
    IF h.st = "alive" THEN [h EXCEPT !.sig = IF @ = "kill" THEN "kill" ELSE sig] ELSE h

\* v.terminate()
Step_terminate ==
    /\ At("terminate")
    /\ handles' = [handles EXCEPT ![Cur.a] = Signal(@, "term")]
    /\ Advance
    /\ UNCHANGED <<quiet, locals, orphans, files, results, mandatory_fail, faults>>

\* v.kill()
Step_kill ==
    /\ At("kill")
    /\ handles' = [handles EXCEPT ![Cur.a] = Signal(@, "kill")]
    /\ Advance
    /\ UNCHANGED <<quiet, locals, orphans, files, results, mandatory_fail, faults>>

\* v.wait(): returns once the process has exited
Step_wait ==
    /\ At("wait")
    /\ handles[Cur.a].st = "dead"
    /\ Advance
    /\ UNCHANGED <<quiet, locals, procs, files, results, mandatory_fail, faults>>

\* v.wait(timeout=5): returns if the process has exited, raises
\* TimeoutExpired if it is still running when the timeout expires
Step_wait_timeout ==
    /\ At("wait_timeout")
    /\ IF handles[Cur.a].st = "dead"
       THEN Advance /\ UNCHANGED <<locals, procs, results, mandatory_fail>>
       ELSE Raise("Timeout", handles)
    /\ UNCHANGED <<quiet, files, faults>>

\* self.server_process = None
Step_clear ==
    /\ At("clear")
    /\ handles' = [handles EXCEPT ![Cur.a] = NoProc]
    /\ orphans' = Orphaned(orphans, [s \in {Cur.a} |-> handles[s]])
    /\ Advance
    /\ UNCHANGED <<quiet, locals, files, results, mandatory_fail, faults>>

\* subprocess.run([binary, path], timeout=2), first half: the child is started
Step_run_sut ==
    /\ At("run_sut")
    /\ \/ /\ handles' = [handles EXCEPT !["run"] = Live]
          /\ Advance
          /\ UNCHANGED <<quiet, locals, orphans, files, results, mandatory_fail, faults>>
       \/ Fault

\* second half: communicate(timeout=2).  The child has exited: flag is
\* `result.returncode != 0`.  It has not: run kills it, waits for it and
\* raises TimeoutExpired
Step_run_wait ==
    /\ At("run_wait")
    /\ IF handles["run"].st = "dead"
       THEN /\ flag' = (handles["run"].rc = "nonzero")
            /\ handles' = [handles EXCEPT !["run"] = NoProc]
            /\ Advance
            /\ UNCHANGED <<tests_passed, passed, orphans, results, mandatory_fail>>
       ELSE Raise("Timeout", [handles EXCEPT !["run"] = NoProc])
    /\ UNCHANGED <<quiet, files, faults>>

\* subprocess.run(["pkill", "-f", binary]): SIGTERM to every SUT process
Step_pkill ==
    /\ At("pkill")
    /\ handles' = [s \in Slots |-> Signal(handles[s], "term")]
    /\ orphans' = [c \in SigClasses |->
                      CASE c = "none" -> 0
                        [] c = "term" -> orphans["term"] + orphans["none"]
                        [] OTHER -> orphans[c]]
    /\ Advance
    /\ UNCHANGED <<quiet, locals, files, results, mandatory_fail, faults>>

----------------------------------------------------------------------------
\* The environment: SUT processes and the user

\* a running SUT exits: by itself (a rejected configuration, a failed bind,
\* a crash) or because it acts on SIGTERM.  The exit code is only read for
\* the child of subprocess.run
SutExit(s) ==
    /\ handles[s].st = "alive"
    /\ handles[s].sig # "kill"
    /\ \E rc \in IF s = "run" THEN {"zero", "nonzero"} ELSE {"na"} :
          handles' = [handles EXCEPT ![s] = Dead(rc)]
    /\ UNCHANGED <<quiet, locals, orphans, stack, files, results, mandatory_fail, faults>>

\* SIGKILL ends the process
SutKilled(s) ==
    /\ handles[s].st = "alive"
    /\ handles[s].sig = "kill"
    /\ handles' = [handles EXCEPT ![s] = Dead("na")]
    /\ UNCHANGED <<quiet, locals, orphans, stack, files, results, mandatory_fail, faults>>

OrphanExit(c) ==
    /\ orphans[c] > 0
    /\ orphans' = [orphans EXCEPT ![c] = @ - 1]
    /\ UNCHANGED <<quiet, locals, handles, stack, files, results, mandatory_fail, faults>>

\* Ctrl-C: KeyboardInterrupt is raised at the statement being executed.
\* subprocess.run kills and reaps its child on any exception
KeyboardInterrupt ==
    /\ Running
    /\ ~interrupted
    /\ interrupted' = TRUE
    /\ Raise("Kbd", IF Cur.op = "run_wait" THEN [handles EXCEPT !["run"] = NoProc]
                    ELSE handles)
    /\ UNCHANGED <<envv, ret, verdicts, score, files, faults>>

----------------------------------------------------------------------------
\* Probes

\* what is done with the Boolean b of a probe
Use(mode, b) ==
    /\ tests_passed' = IF mode = "append" THEN Append(tests_passed, b) ELSE tests_passed
    /\ flag' = CASE mode \in {"flag_set", "print"} -> b
                 [] mode = "flag_and" -> flag /\ b
                 [] OTHER -> flag
    /\ passed' = IF mode = "count" /\ b THEN passed + 1 ELSE passed

\* result = subprocess.run("curl ...", shell=True, capture_output=True,
\* text=True) and the test on its output.  There is no timeout: the call
\* returns when curl does
Step_curl ==
    /\ At("curl")
    /\ \/ /\ \E b \in {(obs \in Cur.acc) : obs \in Observations(Cur)} : Use(Cur.a, b)
          /\ Advance
          /\ UNCHANGED <<quiet, procs, files, results, mandatory_fail, faults>>
       \/ Fault

Outcomes == {"ok", "timeout", "error"}
\* no call of run_curl is being looked at
NoCall == [expected_code |-> "None", first |-> "ok", second |-> "ok",
           status_code |-> "000", result |-> "pending", sent |-> 0]
\* how many times run_curl runs the curl command: l.38 always, and l.42,
\* with the options that print the status, unless l.38 raised
requests(first) == IF first = "ok" THEN 2 ELSE 1

\* a faulty run_curl: an invocation that did not complete is not noticed
run_curl_unguarded(expected_code, first, second, status_code) ==
    IF expected_code # "None" /\ expected_code = status_code THEN TRUE
    ELSE IF expected_code # "None" THEN FALSE
    ELSE TRUE

\* a faulty run_curl: the status is printed and not compared
run_curl_uncompared(expected_code, first, second, status_code) ==
    first = "ok" /\ second = "ok"

\* run_curl (TesterBasic.py l.35-59): first and second are the outcomes of
\* its two subprocess.run(..., timeout=5), status_code the code the second
\* one prints
run_curl(expected_code, first, second, status_code) ==
    IF first # "ok" \/ second # "ok" THEN FALSE
    ELSE IF expected_code # "None" /\ expected_code = status_code THEN TRUE
    ELSE IF expected_code # "None" THEN FALSE
    ELSE TRUE

Step_run_curl ==
    /\ At("run_curl")
    /\ \E b \in {run_curl(Cur.e, first, second, status_code) :
                    first \in Outcomes, second \in Outcomes, status_code \in Statuses} :
          Use(Cur.a, b)
    /\ Advance
    /\ UNCHANGED <<quiet, procs, files, results, mandatory_fail, faults>>

\* tests_passed.append(test_passed) / tests_passed.append(True)
Step_append ==
    /\ At("append")
    /\ tests_passed' = Append(tests_passed, IF Cur.a = "flag" THEN flag ELSE TRUE)
    /\ Advance
    /\ UNCHANGED <<quiet, flag, passed, procs, files, results, mandatory_fail, faults>>

\* passed = False in test_multiple_servers' except clause
Step_set_flag ==
    /\ At("set_flag")
    /\ flag' = FALSE
    /\ Advance
    /\ UNCHANGED <<quiet, tests_passed, passed, procs, files, results, mandatory_fail,
                   faults>>

\* test_config_errors: `if result.returncode != 0: passed += 1`, else pkill
Step_count_flag ==
    /\ At("count_flag")
    /\ IF flag THEN passed' = passed + 1 /\ Goto(Cur.to)
               ELSE Advance /\ UNCHANGED passed
    /\ UNCHANGED <<quiet, flag, tests_passed, procs, files, results, mandatory_fail,
                   faults>>

\* test_passed = server2.poll() is not None; tests_passed.append(test_passed)
Step_poll_append ==
    /\ At("poll_append")
    /\ tests_passed' = Append(tests_passed, handles[Cur.a].st # "alive")
    /\ Advance
    /\ UNCHANGED <<quiet, flag, passed, procs, files, results, mandatory_fail, faults>>

\* strace on the SUT for 2 s (`timeout 2 strace -p pid 2>&1`); flag is
\* has_select or has_poll or has_epoll.  When strace is not installed or may
\* not attach, the output is the error message, with no system call in it
Step_strace ==
    /\ At("strace")
    /\ \/ /\ \E attached \in BOOLEAN :
                /\ strace' = Str(attached)
                /\ \E b \in (IF attached THEN BOOLEAN ELSE {FALSE}) : flag' = b
          /\ Advance
          /\ UNCHANGED <<tester, call, linux, siege, exists, ret, verdicts, score,
                         interrupted, tests_passed, passed, procs, files, results,
                         mandatory_fail, faults>>
       \/ Fault

\* psutil.Process(pid).memory_info(): NoSuchProcess/ZombieProcess may be
\* raised once the SUT has exited; the second reading appends
\* `memory_increase < 50`
Step_memory_info ==
    /\ At("memory_info")
    /\ \/ /\ \E b \in BOOLEAN :
                tests_passed' = IF Cur.a = "final" THEN Append(tests_passed, b)
                                ELSE tests_passed
          /\ Advance
          /\ UNCHANGED <<flag, passed, procs, results, mandatory_fail>>
       \/ /\ handles["server_process"].st = "dead"
          /\ Raise("Error", handles)
    /\ UNCHANGED <<quiet, files, faults>>

\* siege -b -t10s | grep Availability: the availability is parsed with
\* float(stdout.split(':')[1]...), or False is appended when it is missing
Step_siege ==
    /\ At("siege")
    /\ \/ /\ \E b \in BOOLEAN : tests_passed' = Append(tests_passed, b)
          /\ Advance
          /\ UNCHANGED <<quiet, flag, passed, procs, files, results, mandatory_fail,
                         faults>>
       \/ Fault

\* netstat | grep | wc -l, parsed with int(); appends `established < 10`
Step_netstat ==
    /\ At("netstat")
    /\ \/ /\ \E b \in BOOLEAN : tests_passed' = Append(tests_passed, b)
          /\ Advance
          /\ UNCHANGED <<quiet, flag, passed, procs, files, results, mandatory_fail,
                         faults>>
       \/ Fault

\* os.path.exists of the two CGI scripts; appends has_python and has_shell
Step_path_exists ==
    /\ At("path_exists")
    /\ \E b \in BOOLEAN : tests_passed' = Append(tests_passed, b)
    /\ Advance
    /\ UNCHANGED <<quiet, flag, passed, procs, files, results, mandatory_fail, faults>>

----------------------------------------------------------------------------
\* Results and verdicts

\* results[name] = result, then the check for mandatory failures (l.678-682)
Step_record ==
    /\ At("record")
    /\ results' = Append(results, <<Cur.a, ret>>)
    /\ mandatory_fail' = (mandatory_fail \/ (Cur.a \in MandatorySections /\ ret = "False"))
    /\ ret' = "None"
    /\ Advance
    /\ UNCHANGED <<envv, verdicts, score, interrupted, locals, procs, files, faults>>

\* except Exception: results[name] = False (l.684-686)
Step_record_false ==
    /\ At("record_false")
    /\ results' = Append(results, <<Cur.a, "False">>)
    /\ Advance
    /\ UNCHANGED <<quiet, mandatory_fail, locals, procs, files, faults>>

\* test_results.append((name, self.test_x()))
Step_append_result ==
    /\ At("append_result")
    /\ results' = Append(results, <<Cur.a, ret>>)
    /\ ret' = "None"
    /\ Advance
    /\ UNCHANGED <<envv, verdicts, score, interrupted, mandatory_fail, locals, procs,
                   files, faults>>

\* the 'Grade Impact' column of the evaluation summary (l.694-710)
impact(name, result) ==
    IF result = "None" THEN "N/A"
    ELSE IF result = "True" THEN "OK"
    ELSE IF name \in {"Memory Leaks", "I/O Multiplexing"} THEN "GRADE = 0"
    ELSE IF name \in {"Configuration", "Basic Checks", "CGI"} THEN "Major penalty"
    ELSE IF name \in {"Bonus Features"} THEN "No bonus points"
    ELSE "Minor penalty"

\* the evaluation summary table (l.689-712) prints only
Step_summary ==
    /\ At("summary")
    /\ Advance
    /\ UNCHANGED <<quiet, locals, procs, files, results, mandatory_fail, faults>>

\* sum(1 for r in results.values() if r == True)
RECURSIVE count_passed(_)
count_passed(rs) ==
    IF rs = << >> THEN 0
    ELSE (IF Head(rs)[2] = "True" THEN 1 ELSE 0) + count_passed(Tail(rs))

\* a faulty count_total: len(results), which counts the skipped sections too
count_all(rs) == Len(rs)

\* sum(1 for r in results.values() if r is not None)
RECURSIVE count_total(_)
count_total(rs) ==
    IF rs = << >> THEN 0
    ELSE (IF Head(rs)[2] # "None" THEN 1 ELSE 0) + count_total(Tail(rs))

\* percentage = (passed / total * 100) if total > 0 else 0, as the fraction
\* <<numerator, denominator>>.  For total <= 9 the quotient is never within
\* a rounding error of 90 or 70 unless it equals it
percentage(p, t) == IF t > 0 THEN <<p * 100, t>> ELSE <<0, 1>>
AtLeast(pct, k) == pct[1] >= k * pct[2]

\* a faulty Tier: the first threshold at 80 instead of 90
Tier80(pct) ==
    IF AtLeast(pct, 80) THEN "EXCELLENT"
    ELSE IF AtLeast(pct, 70) THEN "GOOD"
    ELSE "NEEDS WORK"

\* the tier printed for a percentage (l.724-729)
Tier(pct) ==
    IF AtLeast(pct, 90) THEN "EXCELLENT"
    ELSE IF AtLeast(pct, 70) THEN "GOOD"
    ELSE "NEEDS WORK"

\* the final verdict of run_correction_tests (l.714-731)
Step_verdict ==
    /\ At("verdict")
    /\ IF mandatory_fail
       THEN /\ verdicts' = Append(verdicts, "HARD_FAIL")
            /\ UNCHANGED score
       ELSE LET p == count_passed(results)
                t == count_total(results)
            IN /\ verdicts' = Append(verdicts, Tier(percentage(p, t)))
               /\ score' = <<p, t>>
    /\ Advance
    /\ UNCHANGED <<envv, ret, interrupted, results, mandatory_fail, locals, procs, files,
                   faults>>

\* the summary of run_all_tests (l.472-486)
GeneralVerdict(p, t) ==
    IF p = t THEN "ALL TESTS PASSED"
    ELSE IF 10 * p >= 7 * t THEN "MOST TESTS PASSED"
    ELSE "MULTIPLE TESTS FAILED"

Step_verdict_general ==
    /\ At("verdict_general")
    /\ LET p == count_passed(results)
           t == Len(results)
       IN /\ verdicts' = Append(verdicts, GeneralVerdict(p, t))
          /\ score' = <<p, t>>
    /\ Advance
    /\ UNCHANGED <<envv, ret, interrupted, results, mandatory_fail, locals, procs, files,
                   faults>>

----------------------------------------------------------------------------
\* The harness run

Init ==
    /\ tester \in {"advanced", "basic"}
    /\ linux = "unknown"
    /\ siege = "unknown"
    /\ strace = "unknown"
    /\ exists \in [binary : BOOLEAN, config : BOOLEAN]
    /\ stack = << Frame(IF tester = "advanced" THEN "main_advanced" ELSE "main_basic") >>
    /\ ret = "None"
    /\ flag = FALSE
    /\ tests_passed = << >>
    /\ passed = 0
    /\ handles = [s \in Slots |-> NoProc]
    /\ orphans = [c \in SigClasses |-> 0]
    /\ files = {}
    /\ results = << >>
    /\ mandatory_fail = FALSE
    /\ verdicts = << >>
    /\ score = <<0, 0>>
    /\ interrupted = FALSE
    /\ faults = 0
    /\ call = NoCall

\* the steps of the harness that complete by themselves
Harness ==
    \/ Step_call \/ Step_return \/ Step_endfinally \/ Step_if \/ Step_if_linux
    \/ Step_which_siege \/ Step_sys_exit \/ Step_sleep \/ Step_mkstemp \/ Step_unlink
    \/ Step_Popen \/ Step_terminate \/ Step_kill \/ Step_wait \/ Step_wait_timeout
    \/ Step_clear \/ Step_run_sut \/ Step_run_wait \/ Step_pkill \/ Step_run_curl
    \/ Step_append \/ Step_set_flag \/ Step_count_flag \/ Step_poll_append
    \/ Step_strace \/ Step_memory_info \/ Step_siege \/ Step_netstat
    \/ Step_path_exists \/ Step_record \/ Step_record_false \/ Step_append_result
    \/ Step_summary \/ Step_verdict \/ Step_verdict_general

Environment ==
    \/ \E s \in Slots : SutExit(s)
    \/ \E s \in Slots : SutKilled(s)
    \/ \E c \in SigClasses : OrphanExit(c)
    \/ KeyboardInterrupt

Next == Harness \/ Step_curl \/ Environment

Spec == Init /\ [][Next]_vars

----------------------------------------------------------------------------
\* run_curl by itself: one call with any expected code (None when the caller
\* gives none), any outcome of its two invocations and any status printed

CurlInit ==
    /\ call \in [expected_code : Statuses \cup {"None"}, first : Outcomes,
                 second : Outcomes, status_code : Statuses, result : {"pending"},
                 sent : {0}]
    /\ tester = "basic"
    /\ linux = "unknown"
    /\ siege = "unknown"
    /\ strace = "unknown"
    /\ exists = [binary |-> TRUE, config |-> TRUE]
    /\ stack = << >>
    /\ ret = "None"
    /\ flag = FALSE
    /\ tests_passed = << >>
    /\ passed = 0
    /\ handles = [s \in Slots |-> NoProc]
    /\ orphans = [c \in SigClasses |-> 0]
    /\ files = {}
    /\ results = << >>
    /\ mandatory_fail = FALSE
    /\ verdicts = << >>
    /\ score = <<0, 0>>
    /\ interrupted = FALSE
    /\ faults = 0

Call_run_curl ==
    /\ call.result = "pending"
    /\ call' = [call EXCEPT !.result = Str(run_curl(call.expected_code, call.first,
                                                    call.second, call.status_code)),
                            !.sent = requests(call.first)]
    /\ UNCHANGED <<tester, linux, siege, strace, exists, stack, ret, flag,
                   tests_passed, passed, handles, orphans, files, results,
                   mandatory_fail, verdicts, score, interrupted, faults>>

CurlNext == Call_run_curl
CurlSpec == CurlInit /\ [][CurlNext]_vars

----------------------------------------------------------------------------
\* The verdict of run_correction_tests

\* run_correction_tests has printed its verdict and has not returned yet:
\* results and mandatory_fail are those the verdict was computed from
Judged == Running /\ Top.fn = "run_correction_tests" /\ verdicts # << >>

\* the sections recorded with result v
Recorded(v) == {i \in 1..Len(results) : results[i][2] = v}

\* C1: when the result recorded for a mandatory section is False at the end
\* of the run, because the section returned False or because it raised, the
\* verdict is HARD_FAIL and no tier is printed
C1_MandatoryFalseIsHardFail ==
    (Judged /\ \E i \in 1..Len(results) :
                  results[i][1] \in MandatorySections /\ results[i][2] = "False")
        => verdicts = << "HARD_FAIL" >>

\* C2: when the gate is not triggered the score is passed/total, passed the
\* number of sections recorded True and total the number of sections not
\* recorded None: a skipped section is in neither; and the percentage of a
\* total of 0 is 0
C2_ScoreCountsConclusive ==
    /\ (Judged /\ ~mandatory_fail) =>
          /\ score = << Cardinality(Recorded("True")),
                        Len(results) - Cardinality(Recorded("None")) >>
          /\ score[1] = Len(results) - Cardinality(Recorded("None"))
                                     - Cardinality(Recorded("False"))
    /\ \A p \in 0..Len(test_sections) : percentage(p, 0)[1] = 0

\* a run scored with skipped and failed sections in it
C2_Witness ==
    /\ Judged /\ ~mandatory_fail
    /\ Cardinality(Recorded("None")) = 2
    /\ Cardinality(Recorded("False")) = 2
    /\ score = <<5, 7>>

\* C3: a completed run of run_correction_tests has issued exactly one
\* verdict: HARD_FAIL if the gate is triggered, otherwise the one tier that
\* is EXCELLENT iff passed*100 >= 90*total, GOOD iff
\* 70*total <= passed*100 < 90*total, NEEDS WORK otherwise
C3_OneVerdict ==
    /\ tester = "advanced" => Len(verdicts) <= 1
    /\ (Running /\ Top.fn = "run_correction_tests"
                /\ Top.ip = Len(run_correction_tests)) =>
          /\ Len(verdicts) = 1
          /\ LET p == Cardinality(Recorded("True"))
                 t == Cardinality(Recorded("True") \cup Recorded("False"))
                 v == verdicts[1]
             IN IF mandatory_fail THEN v = "HARD_FAIL"
                ELSE /\ v \in {"EXCELLENT", "GOOD", "NEEDS WORK"}
                     /\ (v = "EXCELLENT") <=> (p * 100 >= 90 * t)
                     /\ (v = "GOOD") <=> (70 * t <= p * 100 /\ p * 100 < 90 * t)
                     /\ (v = "NEEDS WORK") <=> (p * 100 < 70 * t)

\* a completed run with 6 of 7 conclusive sections passed, graded GOOD
C3_Witness ==
    /\ Running /\ Top.fn = "run_correction_tests"
    /\ Top.ip = Len(run_correction_tests)
    /\ verdicts = << "GOOD" >>
    /\ score = <<6, 7>>

----------------------------------------------------------------------------
\* Processes and fixtures at the end of a section

Alive(s) == handles[s].st = "alive"

\* a section of either tester has just ended, by a return or by an exception
\* caught in run_correction_tests: its result is about to be recorded
SectionEnded == Running /\ Cur.op \in {"record", "record_false", "append_result"}

\* the process variables a section of the tester assigns: every one in the
\* advanced tester; in the basic tester server_process is the shared instance
\* that start_server and stop_server manage around the sections
SectionSlots == IF tester = "basic" THEN Slots \ {"server_process"} ELSE Slots

\* C4: on every exit path of a section, every SUT process the section started
\* has been signalled and has exited when the section ends: none is alive,
\* whether a variable still refers to it or not
C4_NoProcessOutlivesSection ==
    SectionEnded =>
        /\ \A s \in SectionSlots : ~Alive(s)
        /\ orphans["none"] = 0
        /\ orphans["term"] = 0

\* C5: every fixture file a section creates is deleted on every exit path of
\* the section: none exists once the section has ended
C5_NoFixtureOutlivesSection == SectionEnded => files = {}

\* C6: when the harness has exited after a KeyboardInterrupt, every SUT
\* instance that was running has been terminated, the instances held in
\* section-local variables included: none is left alive and unsignalled
C6_InterruptStopsEveryInstance ==
    (interrupted /\ ~Running) =>
        /\ \A s \in Slots : Alive(s) => handles[s].sig # "none"
        /\ orphans["none"] = 0

\* C7: no step of either tester can block: every probe and every wait is
\* bounded by a timeout, so at every point of a run the harness has a step
\* that completes whatever the SUT does
C7_NoStepBlocks == Running => ENABLED Harness

----------------------------------------------------------------------------
\* stop_server

server_process == handles["server_process"]
InStop == Running /\ Top.fn = "stop_server"
\* a step of the harness itself: not one of a SUT process, not a Ctrl-C
HarnessStep == stack' # stack /\ interrupted' = interrupted
\* the instruction the step leads to
NextOp == IF stack' = << >> THEN "exit"
          ELSE Program(stack'[Len(stack')].fn)[stack'[Len(stack')].ip].op

\* C8: stop_server sends SIGTERM first and waits with a timeout; the kill is
\* reached only from a wait that timed out on a running process and is
\* skipped when the process exited in time; SIGKILL is sent by nothing else;
\* and stop_server returns with server_process = None on both paths
C8_StopServer ==
    [][ /\ (InStop /\ HarnessStep) =>
              /\ Cur.op = "wait_timeout" =>
                    /\ server_process.st = "alive" => server_process.sig # "none"
                    /\ NextOp = IF server_process.st = "alive" THEN "kill" ELSE "clear"
              /\ NextOp = "kill" => Cur.op = "wait_timeout"
              /\ Cur.op = "return" => handles'["server_process"] = NoProc
              /\ Len(stack') < Len(stack) => Cur.op = "return"
        /\ \A s \in Slots :
              (handles'[s].sig = "kill" /\ handles[s].sig # "kill") =>
                  /\ InStop /\ HarnessStep
                  /\ Cur.op = "kill" /\ s = "server_process"
                  /\ handles[s].st = "alive" /\ handles[s].sig = "term"
      ]_vars

\* the forced path: the kill has been sent to a process that outlived the wait
C8_Witness ==
    /\ InStop /\ Cur.op = "clear"
    /\ server_process.st = "alive" /\ server_process.sig = "kill"

\* C9 as amended: a stop_server on no instance, on a stopped one or on one
\* that has exited by itself sends no signal and does not raise, and changes
\* nothing but server_process, which it sets to None
C9_StopOnStoppedInstance ==
    [][ (InStop /\ server_process.st # "alive" /\ HarnessStep) =>
            /\ handles' \in {handles, [handles EXCEPT !["server_process"] = NoProc]}
            /\ server_process.st = "none" => handles' = handles
            /\ UNCHANGED <<orphans, files, results, mandatory_fail, verdicts, score>>
            /\ NextOp # "kill"
            /\ Len(stack') < Len(stack) =>
                  Cur.op = "return" /\ Len(stack') = Len(stack) - 1
            /\ stack' # << >> => stack'[Len(stack')].pk = "none"
      ]_vars

\* stop_server is about to clear the handle of an instance that had exited
\* by itself: no signal was sent to it
C9_Witness ==
    /\ InStop /\ Cur.op = "clear"
    /\ server_process.st = "dead"
    /\ ~interrupted

\* C9 as stated: such a stop_server changes no state at all
C9_StopChangesNothing ==
    [][ (InStop /\ server_process.st # "alive" /\ HarnessStep) =>
            UNCHANGED <<handles, orphans, files, results, mandatory_fail, verdicts,
                        score>>
      ]_vars

\* C10: when a stop returns, the exit of the SUT process has been confirmed:
\* the process stop_server killed is not alive when stop_server returns, and
\* the process the advanced tester terminated is not alive after its wait
C10_StoppedIsNotAlive ==
    /\ (InStop /\ Cur.op = "return") => orphans["kill"] = 0
    /\ \A i \in 1..Len(stack) :
          LET f == stack[i]
          IN (f.ip > 1 /\ Program(f.fn)[f.ip - 1].op = "wait") =>
                 ~Alive(Program(f.fn)[f.ip - 1].a)

----------------------------------------------------------------------------
\* The sections of a run

\* the names of the sections run_all_tests plans, in order (l.449-464)
planned_sections ==
    << "Error Codes", "File Uploads", "Permissions", "Autoindex", "CGI",
       "Cookies", "Config Errors", "Multiple Servers" >>

\* the section names of the report, in the order they were recorded
Reported == [i \in 1..Len(results) |-> results[i][1]]

\* C11: whenever run_correction_tests or run_all_tests returns, every planned
\* section has been executed once and has exactly one outcome in the report,
\* whatever happened in earlier sections or at a start of the SUT
C11_EverySectionReported ==
    (Running /\ Top.fn \in RunFns /\ Cur.op = "return") =>
        Reported = IF Top.fn = "run_correction_tests"
                   THEN [i \in 1..Len(test_sections) |-> test_sections[i][1]]
                   ELSE planned_sections

\* C12: an instance is launched on the main configuration only once the exit
\* of the previous one has been confirmed: at every such launch the instance
\* server_process refers to is not running, and none that stop_server killed
\* is still alive
C12_OneMainInstance ==
    (At("Popen") /\ Cur.a = "server_process") =>
        /\ ~Alive("server_process")
        /\ orphans["kill"] = 0

\* C13: when the capability a section needs is not there (the platform is
\* not Linux, strace cannot attach, siege is not installed) the section
\* yields None, never False
C13_NoCapabilityIsSkipped ==
    /\ (At("record") /\ Cur.a = "I/O Multiplexing"
            /\ (linux = "False" \/ strace = "False")) => ret = "None"
    /\ (At("record") /\ Cur.a = "Stress Tests" /\ siege = "False") => ret = "None"

----------------------------------------------------------------------------
\* C14: if the SUT of a section has exited by itself between its launch and
\* the section's stop, the outcome of the section is FAIL whatever its
\* probes gave.  At the stop of test_cgi and test_bonus the outcome is
\* already fixed: it is all(tests_passed)
C14_CrashFailsSection ==
    (At("terminate") /\ Top.fn \in {"test_cgi", "test_bonus"}
        /\ server_process.st = "dead") => ~all(tests_passed)

----------------------------------------------------------------------------
\* C15: run_curl never raises.  Whatever the outcomes of its two
\* invocations, the caller goes on with its next statement in the same
\* frame, a probe adds at most one to the count, and when either invocation
\* timed out or failed the result is False
C15_RunCurlNeverRaises ==
    [][(At("run_curl") /\ HarnessStep) =>
          /\ stack' = SetTop(stack, Top.ip + 1, Top.pk, Top.pv)
          /\ passed' \in {passed, passed + 1}
          /\ faults' = faults
          /\ \A first \in Outcomes, second \in Outcomes, status_code \in Statuses :
                (first # "ok" \/ second # "ok")
                    => ~run_curl(Cur.e, first, second, status_code)]_vars

\* test_error_codes produces its aggregate after a probe did not count
C15_Witness ==
    /\ At("return") /\ Top.fn = "test_error_codes"
    /\ passed = Len(error_code_tests) - 1

----------------------------------------------------------------------------
\* C16: called without an expected code, run_curl reports True whatever its
\* two invocations did, a timeout included
C16_NoExpectedCodeIsTrue ==
    (call.result # "pending" /\ call.expected_code = "None") => call.result = "True"

----------------------------------------------------------------------------
\* C17: the outcome of a section is the conjunction of the outcomes of all
\* its probes: the section passes only if no probe was reported as failed.
\* In test_browser_compatibility every probe but the directory listing is in
\* tests_passed, and flag is what print_test reported for that one
C17_AggregateIsConjunction ==
    (At("return") /\ Top.fn = "test_browser_compatibility")
        => (RetVal(Cur) = "True" => flag)

----------------------------------------------------------------------------
\* the settle interval after a launch of the SUT on the main configuration
Settle ==
    /\ At("sleep") /\ Top.ip > 1
    /\ Program(Top.fn)[Top.ip - 1].op = "Popen"
    /\ Program(Top.fn)[Top.ip - 1].a = "server_process"

\* C18: a launch whose SUT has exited by the end of the settle interval is
\* reported as a startup failure, and no probe is issued against that
\* instance: the step that ends the interval does not lead to a probe
C18_NoProbeAfterStartupFailure ==
    [][(Settle /\ server_process.st = "dead" /\ HarnessStep)
          => NextOp \notin {"curl", "run_curl"}]_vars

----------------------------------------------------------------------------
\* the child of subprocess.run has exited with a non-zero code
ExitedNonZero == handles["run"].st = "dead" /\ handles["run"].rc = "nonzero"
\* the first instruction after the iteration of test_config_errors that ip is in
NextIteration(ip) ==
    IF ip <= Len(test_configs) THEN ip + 1
    ELSE Len(test_configs) + 1 + 7 * ((ip - Len(test_configs) - 1) \div 7 + 1)

----------------------------------------------------------------------------
\* C20: the port-conflict check of test_port_issues passes iff, at the end
\* of the settle wait, the second instance has exited while the first is
\* still running
C20_PortConflictCheck ==
    [][(At("poll_append") /\ Top.fn = "test_port_issues" /\ HarnessStep) =>
          (tests_passed'[Len(tests_passed')]
              <=> (~Alive("server2") /\ Alive("server1")))]_vars

----------------------------------------------------------------------------
\* C21: a run in which stop_server had to kill the SUT does not report every
\* section as passed.  A process counted in orphans["kill"] is one that
\* stop_server has killed and that has not exited yet
C21_ForcedKillIsRecorded ==
    (At("verdict_general") /\ orphans["kill"] > 0)
        => count_passed(results) < Len(results)

----------------------------------------------------------------------------
\* C22: a delete of a fixture file that fails is not fatal: the section goes
\* on with the statement after the delete, so its outcome and the stop of
\* its SUT are what they would have been
C22_CleanupFailureIsNotFatal ==
    [][(At("unlink") /\ HarnessStep /\ ~interrupted /\ files' = files)
          => stack' = SetTop(stack, Top.ip + 1, Top.pk, Top.pv)]_vars

----------------------------------------------------------------------------
\* the statuses of the 2xx range among those a probe can observe
Success == {"200", "201", "204"}

\* C23: a body-size probe of test_file_uploads whose two invocations
\* completed passes, for a size above client_max_body_size, iff the status
\* is 413 and, for a size at or below it, iff the status is in the 2xx range
C23_BodySizeProbes ==
    \A i \in 1..Len(sizes) :
        (/\ call.result # "pending"
         /\ call.expected_code = upload_expected(sizes[i])
         /\ call.first = "ok" /\ call.second = "ok") =>
            (call.result = "True" <=>
                IF sizes[i] > client_max_body_size
                THEN call.status_code = "413"
                ELSE call.status_code \in Success)

----------------------------------------------------------------------------
\* the DELETE probes on a location that does not allow DELETE: the expected
\* codes of the basic tester (permission_tests 5 and 6, error_code_tests 5)
\* and the statuses test_configuration accepts for the same probe (l.252)
delete_expected == {permission_tests[5], permission_tests[6], error_code_tests[5]}
delete_accepted == test_configuration[19].acc

\* C24: a DELETE probe on a location that does not allow DELETE passes iff
\* the status is 403 or 405, in the basic tester as in the advanced one
C24_DeleteNotAllowed ==
    /\ delete_accepted = {"403", "405"}
    /\ (/\ call.result # "pending"
        /\ call.expected_code \in delete_expected
        /\ call.first = "ok" /\ call.second = "ok") =>
           (call.result = "True" <=> call.status_code \in delete_accepted)

----------------------------------------------------------------------------
\* C25: called with an expected code, run_curl returns True iff both its
\* invocations completed and the status printed equals the expected code
C25_ExpectedCodeExactly ==
    (call.result # "pending" /\ call.expected_code # "None") =>
        (call.result = "True" <=>
            /\ call.first = "ok" /\ call.second = "ok"
            /\ call.status_code = call.expected_code)

C25_Witness ==
    /\ call.result = "True"
    /\ call.expected_code = "413"

----------------------------------------------------------------------------
\* C26: while the system calls of the SUT are sampled, a probe is directed
\* at the same instance: the harness can issue one before the sampling ends
C26_ProbeDuringSampling ==
    At("strace") => (ENABLED Step_curl \/ ENABLED Step_run_curl)

----------------------------------------------------------------------------
\* C27: one probe with run_curl sends one request to the SUT, the one whose
\* status is compared with the expected code
C27_OneRequestPerProbe ==
    call.result # "pending" => call.sent = 1

----------------------------------------------------------------------------
\* C28: in the evaluation summary a failed section is labelled 'GRADE = 0'
\* iff a False result of that section sets the zero-grade gate
C28_SeverityIsConsistent ==
    At("summary") =>
        \A i \in Recorded("False") :
            impact(results[i][1], results[i][2]) = "GRADE = 0"
                <=> results[i][1] \in MandatorySections

----------------------------------------------------------------------------
\* test_config_errors is running
InConfigErrors == \E i \in 1..Len(stack) : stack[i].fn = "test_config_errors"
\* a SUT process launched on the main configuration is alive, referred to
\* by server_process or no longer referred to
MainInstanceAlive ==
    Alive("server_process") \/ \E c \in SigClasses : orphans[c] > 0

\* C29: test_config_errors never runs while the instance that
\* run_all_tests started on the main configuration is alive
C29_ConfigErrorsWithoutMainInstance ==
    (InConfigErrors /\ ~interrupted) => ~MainInstanceAlive

----------------------------------------------------------------------------
----------------------------------------------------------------------------
\* C31: the summary of run_all_tests prints the all-passed verdict only if
\* all the planned sections were run and passed, and its total counts every
\* planned section, also one that was not run because the restart failed
C31_SummaryCountsEverySection ==
    (Running /\ Top.fn = "run_all_tests" /\ verdicts # << >>) =>
        /\ score[2] = Len(planned_sections)
        /\ verdicts[Len(verdicts)] = "ALL TESTS PASSED" =>
              /\ Reported = planned_sections
              /\ count_passed(results) = Len(planned_sections)

====
